---------------------------- MODULE Spec2Model ----------------------------
(***************************************************************************)
(* A model of LDAPSearcherApp (src/ldap_searcher.py): the search form, the *)
(* identifier text box, the result text box and the handler                *)
(* perform_ldap_search, which validates the form, opens one ldap3          *)
(* connection, issues one search per line of the identifier text and       *)
(* writes a header line and one line per returned entry.                   *)
(*                                                                         *)
(* Text is modelled as a sequence of one-character strings, so that the    *)
(* Python string operations the handler uses (strip, splitlines, split,    *)
(* join, f-strings) are computed character by character.                   *)
(***************************************************************************)
EXTENDS Integers, Sequences, FiniteSets, TLC

(***************************************************************************)
(* Bounds of the environment.                                              *)
(***************************************************************************)
\* The most entries the directory service returns for one search.
MaxEntries == 2

\* The most data rows the directory service returns over one whole run.
MaxRows == 3

(***************************************************************************)
(* Python string operations.                                               *)
(***************************************************************************)
\* The whitespace characters of the model's alphabet (str.strip strips them).
IsSpace(c) == c \in {" ", "\n"}

RECURSIVE lstrip(_)
lstrip(s) ==
    IF s = <<>> THEN s
    ELSE IF IsSpace(Head(s)) THEN lstrip(Tail(s)) ELSE s

RECURSIVE rstrip(_)
rstrip(s) ==
    IF s = <<>> THEN s
    ELSE IF IsSpace(s[Len(s)]) THEN rstrip(SubSeq(s, 1, Len(s) - 1)) ELSE s

\* str.strip(): drops leading and trailing whitespace, newlines included.
strip(s) == rstrip(lstrip(s))

\* str.split(sep) for a one-character separator: always at least one piece.
RECURSIVE split(_, _)
split(s, sep) ==
    IF \A k \in 1..Len(s) : s[k] # sep THEN <<s>>
    ELSE LET k == CHOOSE j \in 1..Len(s) :
                      s[j] = sep /\ \A h \in 1..(j - 1) : s[h] # sep
         IN  <<SubSeq(s, 1, k - 1)>> \o split(SubSeq(s, k + 1, Len(s)), sep)

\* str.splitlines(): no line for the empty text, none after a final newline.
splitlines(s) ==
    IF s = <<>> THEN <<>>
    ELSE LET p == split(s, "\n")
         IN  IF p[Len(p)] = <<>> THEN SubSeq(p, 1, Len(p) - 1) ELSE p

\* sep.join(xs)
RECURSIVE join(_, _)
join(sep, xs) ==
    IF xs = <<>> THEN <<>>
    ELSE IF Len(xs) = 1 THEN xs[1]
    ELSE xs[1] \o sep \o join(sep, Tail(xs))

(***************************************************************************)
(* The placeholder texts of the three Entry widgets.                       *)
(***************************************************************************)
PLACEHOLDER_FIELD ==
    <<"L", "D", "A", "P", " ", "f", "i", "e", "l", "d", " ", "t", "o", " ",
      "s", "e", "a", "r", "c", "h">>

PLACEHOLDER_BASE ==
    <<"L", "D", "A", "P", " ", "s", "e", "a", "r", "c", "h", " ", "b", "a",
      "s", "e">>

PLACEHOLDER_ATTRIBUTES ==
    <<"L", "D", "A", "P", " ", "a", "t", "t", "r", "i", "b", "u", "t", "e",
      "s", " ", "t", "o", " ", "s", "e", "a", "r", "c", "h", " ", "(", "s",
      "e", "p", "a", "r", "a", "t", "e", "d", " ", "b", "y", " ", "c", "o",
      "m", "m", "a", "s", ")">>

(***************************************************************************)
(* What the user may type and what the files may hold.                     *)
(***************************************************************************)
\* Search field: empty, the placeholder, "u", " u" (a leading blank).
FieldTexts == { <<>>, PLACEHOLDER_FIELD, <<"u">>, <<" ", "u">> }

\* Search base: empty, the placeholder, "b".
BaseTexts == { <<>>, PLACEHOLDER_BASE, <<"b">> }

\* Search attributes: empty, the placeholder, "c", "u, c" (the field again).
AttributeTexts ==
    { <<>>, PLACEHOLDER_ATTRIBUTES, <<"c">>, <<"u", ",", " ", "c">> }

\* Identifier texts: "", "a", "a\nb", "a\n\nb", "a\n \nb", "\na\n", "a)\nb",
\* "*".
IdentifierTexts ==
    { <<>>,
      <<"a">>,
      <<"a", "\n", "b">>,
      <<"a", "\n", "\n", "b">>,
      <<"a", "\n", " ", "\n", "b">>,
      <<"\n", "a", "\n">>,
      <<"a", ")", "\n", "b">>,
      <<"*">> }

\* A value a key of the properties file can have; "None" is what dict.get
\* gives for a section or key the file does not hold.
AbsentProperties == [server |-> "None", username |-> "None", password |-> "None"]

\* The files: empty, complete, without a password, without the credentials
\* section, and with an empty password ("password =").
PropertiesFiles ==
    { AbsentProperties,
      [server |-> "ldap.example.com", username |-> "u", password |-> "p"],
      [server |-> "ldap.example.com", username |-> "u", password |-> "None"],
      [server |-> "ldap.example.com", username |-> "None", password |-> "None"],
      [server |-> "ldap.example.com", username |-> "u", password |-> ""] }

\* The entries the directory holds: each gives a value to the attributes
\* "u" and "c".  The service matches "u" without regard to case, so the
\* entry a search for "a" returns can hold "A".
Directory ==
    { [u |-> <<"a">>, c |-> <<"x">>],
      [u |-> <<"A">>, c |-> <<"y">>] }

\* Every sequence of at most n entries of the directory.
RECURSIVE EntrySeqs(_)
EntrySeqs(n) ==
    IF n = 0 THEN { <<>> }
    ELSE LET shorter == EntrySeqs(n - 1)
         IN  shorter \cup { Append(s, e) : s \in shorter, e \in Directory }

\* str(result[attr]): the stringified value the entry holds for attr; an
\* attribute the entry does not hold is returned empty.
EntryValue(result, attr) ==
    IF attr = <<"u">> THEN result.u
    ELSE IF attr = <<"c">> THEN result.c
    ELSE <<>>

(***************************************************************************)
(* The state.                                                              *)
(***************************************************************************)
VARIABLES
    search_field,            \* text of the Search Field entry
    search_base,             \* text of the Search Base entry
    search_attributes,       \* text of the Search Attributes entry
    left_textbox,            \* the identifier text (without Tk's final "\n")
    right_textbox,           \* the result text, as the sequence of its lines
    ldap_server_properties,  \* the properties read by select_ldap_server
    ldap_search_button,      \* "disabled" or "active"
    csv_export_button,       \* "disabled" or "active"
    handler,                 \* the handler that is running, or "none"
    pc,                      \* position of the running handler
    search_params,           \* perform_ldap_search: validated parameters
    lines,                   \* perform_ldap_search: the list the loop walks
    i,                       \* perform_ldap_search: index of the next line
    conn_state,              \* "none", "failed", "bound" or "closed"
    server_calls,            \* number of Server(...) calls
    connection_calls,        \* the Connection(...) calls: user and password
    unbind_calls,            \* number of conn.unbind() calls
    searches,                \* the conn.search calls of the run, in order
    dialog                   \* the message box shown: "none", "warning", "error"

widgets ==
    <<search_field, search_base, search_attributes, left_textbox,
      ldap_server_properties, ldap_search_button>>

run ==
    <<search_params, lines, i, conn_state, server_calls, connection_calls,
      unbind_calls, searches, dialog>>

vars == <<widgets, right_textbox, csv_export_button, handler, pc, run>>

\* validate_search_parameters returning None.
None == [valid |-> FALSE, field |-> <<>>, base |-> <<>>, attributes |-> <<>>]

Init ==
    /\ search_field = PLACEHOLDER_FIELD
    /\ search_base = PLACEHOLDER_BASE
    /\ search_attributes = PLACEHOLDER_ATTRIBUTES
    /\ left_textbox = <<>>
    /\ right_textbox = <<>>
    /\ ldap_server_properties = AbsentProperties
    /\ ldap_search_button = "disabled"
    /\ csv_export_button = "disabled"
    /\ handler = "none"
    /\ pc = "idle"
    /\ search_params = None
    /\ lines = <<>>
    /\ i = 0
    /\ conn_state = "none"
    /\ server_calls = 0
    /\ connection_calls = <<>>
    /\ unbind_calls = 0
    /\ searches = <<>>
    /\ dialog = "none"

(***************************************************************************)
(* The user edits the form; the file handlers.                             *)
(***************************************************************************)
\* The user leaves the Search Field entry holding v.
EditSearchField ==
    /\ pc = "idle"
    /\ \E v \in FieldTexts : search_field' = v
    /\ UNCHANGED <<search_base, search_attributes, left_textbox,
                   ldap_server_properties, ldap_search_button,
                   right_textbox, csv_export_button, handler, pc,
                   run>>

EditSearchBase ==
    /\ pc = "idle"
    /\ \E v \in BaseTexts : search_base' = v
    /\ UNCHANGED <<search_field, search_attributes, left_textbox,
                   ldap_server_properties, ldap_search_button,
                   right_textbox, csv_export_button, handler, pc,
                   run>>

EditSearchAttributes ==
    /\ pc = "idle"
    /\ \E v \in AttributeTexts : search_attributes' = v
    /\ UNCHANGED <<search_field, search_base, left_textbox,
                   ldap_server_properties, ldap_search_button,
                   right_textbox, csv_export_button, handler, pc,
                   run>>

\* The user types the identifier text.
EditLeftTextbox ==
    /\ pc = "idle"
    /\ \E t \in IdentifierTexts : left_textbox' = t
    /\ UNCHANGED <<search_field, search_base, search_attributes,
                   ldap_server_properties, ldap_search_button,
                   right_textbox, csv_export_button, handler, pc,
                   run>>

\* load_csv with a file chosen: the text box is emptied, then filled with
\* the stripped content; a read that raises leaves it empty and shows the
\* error.
load_csv ==
    /\ pc = "idle"
    /\ \E content \in IdentifierTexts, readable \in BOOLEAN :
          IF readable
          THEN /\ left_textbox' = strip(content)
               /\ UNCHANGED <<handler, pc, dialog>>
          ELSE /\ left_textbox' = <<>>
               /\ handler' = "load_csv"
               /\ pc' = "done"
               /\ dialog' = "error"
    /\ UNCHANGED <<search_field, search_base, search_attributes,
                   ldap_server_properties, ldap_search_button,
                   right_textbox, csv_export_button, search_params, lines,
                   i, conn_state, server_calls, connection_calls,
                   unbind_calls, searches>>

\* select_ldap_server with a file chosen.
select_ldap_server ==
    /\ pc = "idle"
    /\ \E props \in PropertiesFiles : ldap_server_properties' = props
    /\ ldap_search_button' = "active"
    /\ UNCHANGED <<search_field, search_base, search_attributes,
                   left_textbox, right_textbox, csv_export_button, handler, pc,
                   run>>

(***************************************************************************)
(* perform_ldap_search.                                                    *)
(***************************************************************************)
\* [attr.strip() for attr in text.split(",")]
SplitAttributes(text) ==
    LET parts == split(text, ",")
    IN  [k \in 1..Len(parts) |-> strip(parts[k])]

\* validate_search_parameters without its check of the search base.
validate_without_base_check(field, base, attributes) ==
    IF field = <<>> \/ field = PLACEHOLDER_FIELD THEN None
    ELSE IF attributes = <<>> \/ attributes = PLACEHOLDER_ATTRIBUTES THEN None
    ELSE [valid |-> TRUE, field |-> field, base |-> base,
          attributes |-> SplitAttributes(field \o <<",">> \o attributes)]

validate_search_parameters(field, base, attributes) ==
    IF field = <<>> \/ field = PLACEHOLDER_FIELD THEN None
    ELSE IF base = <<>> \/ base = PLACEHOLDER_BASE THEN None
    ELSE IF attributes = <<>> \/ attributes = PLACEHOLDER_ATTRIBUTES THEN None
    ELSE [valid |-> TRUE, field |-> field, base |-> base,
          attributes |-> SplitAttributes(field \o <<",">> \o attributes)]

\* The identifier lines with the last one left out.
IdentifierLinesButLast(text) ==
    LET all == splitlines(strip(text \o <<"\n">>))
    IN  SubSeq(all, 1, Len(all) - 1)

\* self.left_textbox.get("1.0", tk.END).strip().splitlines()
IdentifierLines(text) == splitlines(strip(text \o <<"\n">>))

\* f"({search_params['field']}={entry})"
SearchFilter(field, entry) == <<"(">> \o field \o <<"=">> \o entry \o <<")">>

\* The result line with the stripped match field written in place of the
\* entry's own value of the first attribute.
ResultLineFieldName(result, attributes) ==
    join(<<";">>,
         [k \in 1..Len(attributes) |->
             IF k = 1 THEN attributes[1]
             ELSE EntryValue(result, attributes[k])])

\* ";".join(str(result[attr]) for attr in attributes)
ResultLine(result, attributes) ==
    join(<<";">>, [k \in 1..Len(attributes) |-> EntryValue(result, attributes[k])])

\* The lines the inner loop inserts for the entries of one search.
ResultLines(entries, attributes) ==
    [k \in 1..Len(entries) |-> ResultLine(entries[k], attributes)]

\* The button is pressed: the parameters are validated, and the results are
\* cleared when they are valid.
Validate ==
    /\ pc = "idle"
    /\ ldap_search_button = "active"
    /\ handler' = "perform_ldap_search"
    /\ LET params == validate_search_parameters(search_field, search_base,
                                                search_attributes)
       IN  IF ~params.valid
           THEN /\ dialog' = "warning"
                /\ pc' = "done"
                /\ UNCHANGED <<right_textbox, search_params>>
           ELSE /\ search_params' = params
                /\ right_textbox' = <<>>
                /\ pc' = "connect"
                /\ UNCHANGED dialog
    /\ UNCHANGED <<widgets, csv_export_button, lines, i, conn_state,
                   server_calls, connection_calls, unbind_calls, searches>>

\* OpenSession with the header line written before the connection is made.
OpenSessionHeaderFirst ==
    /\ pc = "connect"
    /\ \E outcome \in {"server raises", "bind raises", "bound"} :
          /\ ldap_server_properties.server = "None" => outcome = "server raises"
          /\ server_calls' = server_calls + 1
          /\ connection_calls' =
                IF outcome = "server raises" THEN connection_calls
                ELSE Append(connection_calls,
                            [user |-> ldap_server_properties.username,
                             password |-> ldap_server_properties.password])
          /\ right_textbox' =
                Append(right_textbox, join(<<";">>, search_params.attributes))
          /\ IF outcome = "bound"
             THEN /\ conn_state' = "bound"
                  /\ lines' = IdentifierLines(left_textbox)
                  /\ i' = 1
                  /\ pc' = "loop"
                  /\ UNCHANGED dialog
             ELSE /\ conn_state' = "failed"
                  /\ dialog' = "error"
                  /\ pc' = "done"
                  /\ UNCHANGED <<lines, i>>
    /\ UNCHANGED <<widgets, csv_export_button, handler, search_params,
                   unbind_calls, searches>>

\* Server(...), Connection(..., auto_bind=True), then the header line.
\* Server(None) raises (ldap3 strips the host name it is given), so a run
\* whose properties hold no server address never gets a connection.
OpenSession ==
    /\ pc = "connect"
    /\ \E outcome \in {"server raises", "bind raises", "bound"} :
          /\ ldap_server_properties.server = "None" => outcome = "server raises"
          /\ server_calls' = server_calls + 1
          /\ connection_calls' =
                IF outcome = "server raises" THEN connection_calls
                ELSE Append(connection_calls,
                            [user |-> ldap_server_properties.username,
                             password |-> ldap_server_properties.password])
          /\ IF outcome = "bound"
             THEN /\ conn_state' = "bound"
                  /\ right_textbox' =
                        Append(right_textbox,
                               join(<<";">>, search_params.attributes))
                  /\ lines' = IdentifierLines(left_textbox)
                  /\ i' = 1
                  /\ pc' = "loop"
                  /\ UNCHANGED dialog
             ELSE /\ conn_state' = "failed"
                  /\ dialog' = "error"
                  /\ pc' = "done"
                  /\ UNCHANGED <<right_textbox, lines, i>>
    /\ UNCHANGED <<widgets, csv_export_button, handler, search_params,
                   unbind_calls, searches>>

\* One turn of the loop: the search for lines[i], then one line per entry.
SearchEntry ==
    /\ pc = "loop"
    /\ i <= Len(lines)
    /\ LET entry == lines[i]
           call == [entry |-> entry,
                    search_base |-> search_params.base,
                    search_filter |-> SearchFilter(search_params.field, entry),
                    attributes |-> search_params.attributes]
       IN  \/ \* conn.search raises: the handler's except clause shows it
              /\ searches' = Append(searches,
                    [call |-> call, raised |-> TRUE, entries |-> <<>>])
              /\ dialog' = "error"
              /\ pc' = "done"
              /\ UNCHANGED <<right_textbox, i>>
           \/ \* conn.search returns and conn.entries holds the entries
              \E entries \in EntrySeqs(MaxEntries) :
                 /\ Len(right_textbox) - 1 + Len(entries) <= MaxRows
                 /\ searches' = Append(searches,
                       [call |-> call, raised |-> FALSE, entries |-> entries])
                 /\ right_textbox' =
                       right_textbox
                          \o ResultLines(entries, search_params.attributes)
                 /\ i' = i + 1
                 /\ UNCHANGED <<pc, dialog>>
    /\ UNCHANGED <<widgets, csv_export_button, handler, search_params, lines,
                   conn_state, server_calls, connection_calls, unbind_calls>>

\* After the loop: conn.unbind() and the export button.
CloseSession ==
    /\ pc = "loop"
    /\ i > Len(lines)
    /\ conn_state' = "closed"
    /\ unbind_calls' = unbind_calls + 1
    /\ csv_export_button' = "active"
    /\ pc' = "done"
    /\ UNCHANGED <<widgets, right_textbox, handler, search_params, lines, i,
                   server_calls, connection_calls, searches, dialog>>

\* The handler returns to the main loop (after its message box, if it showed
\* one, is dismissed); its locals and the record of its calls are dropped.
Return ==
    /\ pc = "done"
    /\ pc' = "idle"
    /\ handler' = "none"
    /\ search_params' = None
    /\ lines' = <<>>
    /\ i' = 0
    /\ conn_state' = "none"
    /\ server_calls' = 0
    /\ connection_calls' = <<>>
    /\ unbind_calls' = 0
    /\ searches' = <<>>
    /\ dialog' = "none"
    /\ UNCHANGED <<widgets, right_textbox, csv_export_button>>

Next ==
    \/ EditSearchField
    \/ EditSearchBase
    \/ EditSearchAttributes
    \/ EditLeftTextbox
    \/ load_csv
    \/ select_ldap_server
    \/ Validate
    \/ OpenSession
    \/ SearchEntry
    \/ CloseSession
    \/ Return

Spec == Init /\ [][Next]_vars

(***************************************************************************)
(* The claims.  A run of perform_ldap_search is over when pc = "done";     *)
(* searches, conn_state and unbind_calls then describe the whole run.      *)
(***************************************************************************)
\* The session of the run was opened and bound.
SessionOpened == conn_state \in {"bound", "closed"}

\* The run of perform_ldap_search is over.
RunOver == handler = "perform_ldap_search" /\ pc = "done"

\* C1: in every run in which the connection was opened and bound, the
\* session is closed (conn.unbind) exactly once before the run ends, on the
\* success path and on every error path.
C1_SessionClosedOnce ==
    (RunOver /\ SessionOpened) => (unbind_calls = 1 /\ conn_state = "closed")

\* C2: a search that raises on one identifier does not abort the batch: the
\* identifier contributes no row and every identifier after it is still
\* searched, so that a run that opened its session ends with one search per
\* line of the list.
C2_FailureDoesNotAbort ==
    (RunOver /\ SessionOpened) =>
        /\ Len(searches) = Len(lines)
        /\ \A k \in 1..Len(searches) :
              searches[k].raised => searches[k].entries = <<>>

\* C3: a line that is empty or holds only whitespace, wherever it is in the
\* list, never causes a search call and never produces a result row.
C3_BlankLineNeverSearched ==
    \A k \in 1..Len(searches) : strip(searches[k].call.entry) # <<>>

\* The attribute names the user entered, each trimmed, in entry order.
EnteredAttributes == SplitAttributes(search_attributes)

\* C5: for every valid search specification the effective attribute list is
\* [field] followed by the caller's attributes in their order, the field
\* kept a second time when the caller listed it too, and the header row,
\* emitted first, is exactly this list.
C5_FieldThenAttributes ==
    search_params.valid =>
        /\ search_params.attributes =
              <<search_params.field>> \o EnteredAttributes
        /\ SessionOpened =>
              right_textbox[1] =
                 join(<<";">>, <<search_params.field>> \o EnteredAttributes)

\* C6: validate_search_parameters returns as 'attributes' exactly the
\* attribute names the user entered, trimmed and in entry order, and every
\* search call is given exactly that list.
C6_AttributesAsEntered ==
    search_params.valid =>
        /\ search_params.attributes = EnteredAttributes
        /\ \A k \in 1..Len(searches) :
              searches[k].call.attributes = EnteredAttributes

\* The escape of one character of a filter value (RFC 4515): the reserved
\* characters become a backslash and two hexadecimal digits.
EscapedChar(c) ==
    IF c = "(" THEN <<"\\", "2", "8">>
    ELSE IF c = ")" THEN <<"\\", "2", "9">>
    ELSE IF c = "*" THEN <<"\\", "2", "a">>
    ELSE IF c = "\\" THEN <<"\\", "5", "c">>
    ELSE <<c>>

RECURSIVE EscapedValue(_)
EscapedValue(v) ==
    IF v = <<>> THEN <<>> ELSE EscapedChar(Head(v)) \o EscapedValue(Tail(v))

\* C10: the filter sent for an identifier is "(" field "=" v ")" with v the
\* identifier with every reserved character escaped, so that no identifier
\* can change the structure of the filter.
C10_FilterValueEscaped ==
    \A k \in 1..Len(searches) :
        searches[k].call.search_filter =
           <<"(">> \o search_params.field \o <<"=">>
              \o EscapedValue(searches[k].call.entry) \o <<")">>

\* The lines of the identifier text that are not blank, each trimmed.
NonBlank(ls) == SelectSeq([k \in 1..Len(ls) |-> strip(ls[k])], LAMBDA l : l # <<>>)

\* The identifiers the searches of the run were issued for.
SearchedEntries == [k \in 1..Len(searches) |-> searches[k].call.entry]

\* The result lines of the entries the searches returned, search after
\* search.
RECURSIVE ReturnedLines(_, _)
ReturnedLines(log, attributes) ==
    IF log = <<>> THEN <<>>
    ELSE ResultLines(Head(log).entries, attributes)
            \o ReturnedLines(Tail(log), attributes)

\* The run ended with no failure: every search returned and the session was
\* closed.
RunSucceeded == RunOver /\ conn_state = "closed"

\* C4: in a run with no failure one search is issued per non-blank
\* identifier, in input order, and the data rows are the concatenation, in
\* that order, of the entries each search returned, in the order the service
\* returned them: a search with no entry adds no row, and no row is
\* reordered, dropped or merged.
C4_OneSearchPerIdentifierInOrder ==
    RunSucceeded =>
        /\ NonBlank(SearchedEntries) = NonBlank(split(left_textbox, "\n"))
        /\ \A k \in 1..Len(searches) : ~searches[k].raised
        /\ Tail(right_textbox) = ReturnedLines(searches, search_params.attributes)

\* C4, witness: a finished run of two searches or more in which a search
\* that returned two entries is followed by a search that returned none.
C4_Witness ==
    /\ RunSucceeded
    /\ \E j, k \in 1..Len(searches) :
          /\ j < k
          /\ Len(searches[j].entries) = 2
          /\ searches[j].entries[1] # searches[j].entries[2]
          /\ searches[k].entries = <<>>
          /\ strip(searches[k].call.entry) # <<>>

\* A form text is missing: empty, or still the placeholder.
Missing(text, placeholder) == text = <<>> \/ text = placeholder

MissingParameter ==
    \/ Missing(search_field, PLACEHOLDER_FIELD)
    \/ Missing(search_base, PLACEHOLDER_BASE)
    \/ Missing(search_attributes, PLACEHOLDER_ATTRIBUTES)

\* C7: when perform_ldap_search starts with the field, the base or the
\* attributes missing, validation returns no parameters and the run stops
\* there: no server, no connection, no search, and the results displayed
\* before are left as they were.
C7_MissingParameterStopsRun ==
    [][ (handler = "none" /\ handler' = "perform_ldap_search" /\ MissingParameter)
          => /\ pc' = "done"
             /\ ~search_params'.valid
             /\ dialog' = "warning"
             /\ server_calls' = 0
             /\ conn_state' = "none"
             /\ searches' = <<>>
             /\ right_textbox' = right_textbox ]_vars

\* C7, witness: a run stopped by the missing search base while the results
\* of an earlier run are displayed.
C7_Witness ==
    /\ RunOver
    /\ ~search_params.valid
    /\ dialog = "warning"
    /\ Missing(search_base, PLACEHOLDER_BASE)
    /\ ~Missing(search_field, PLACEHOLDER_FIELD)
    /\ ~Missing(search_attributes, PLACEHOLDER_ATTRIBUTES)
    /\ Len(right_textbox) > 1

\* C8: when opening the session fails the run is aborted with that error:
\* no search is issued and no row is produced, not even the header.
C8_OpenFailureProducesNothing ==
    conn_state = "failed" =>
        /\ RunOver
        /\ dialog = "error"
        /\ searches = <<>>
        /\ unbind_calls = 0
        /\ right_textbox = <<>>

\* C8, witness: the bind failed in a run that had identifiers to search,
\* after an earlier run had succeeded.
C8_Witness ==
    /\ conn_state = "failed"
    /\ ldap_server_properties.server # "None"
    /\ IdentifierLines(left_textbox) # <<>>
    /\ csv_export_button = "active"

\* For each data row of the run, in order: the identifier it was searched
\* for and the entry it was made from.
RECURSIVE RowOrigins(_)
RowOrigins(log) ==
    IF log = <<>> THEN <<>>
    ELSE [k \in 1..Len(Head(log).entries) |->
             [entry |-> Head(log).call.entry, result |-> Head(log).entries[k]]]
            \o RowOrigins(Tail(log))

\* The columns of the r-th data row.
DataRowColumns(r) == split(right_textbox[r + 1], ";")

\* The session is open or was closed, so that the table holds the header and
\* the rows of the run.
TableOfRun == handler = "perform_ldap_search" /\ SessionOpened

\* C9 as stated: the first column of every data row holds the identifier
\* submitted for the search that returned the entry, not the entry's own
\* value of that attribute; the other columns hold the entry's values.
C9_FirstColumnIsIdentifier ==
    TableOfRun =>
        LET origins == RowOrigins(searches)
        IN  /\ Len(right_textbox) = 1 + Len(origins)
            /\ \A r \in 1..Len(origins) :
                  /\ DataRowColumns(r)[1] = origins[r].entry
                  /\ \A c \in 2..Len(search_params.attributes) :
                        DataRowColumns(r)[c] =
                           EntryValue(origins[r].result, search_params.attributes[c])

\* C9 as amended: the first column of every data row holds the returned
\* entry's own value of the match-field attribute (the stripped field, asked
\* for as the first attribute), whatever identifier was submitted; the other
\* columns hold the entry's values of the requested attributes.
C9_FirstColumnIsEntryValue ==
    TableOfRun =>
        LET origins == RowOrigins(searches)
        IN  /\ Len(right_textbox) = 1 + Len(origins)
            /\ \A r \in 1..Len(origins) :
                  /\ Len(DataRowColumns(r)) = Len(search_params.attributes)
                  /\ DataRowColumns(r)[1] =
                        EntryValue(origins[r].result, strip(search_params.field))
                  /\ \A c \in 2..Len(search_params.attributes) :
                        DataRowColumns(r)[c] =
                           EntryValue(origins[r].result, search_params.attributes[c])

\* C9, witness: a data row made from an entry whose value of the match field
\* is not the identifier that was submitted.
C9_Witness ==
    /\ TableOfRun
    /\ \E r \in 1..Len(RowOrigins(searches)) :
          /\ strip(search_params.field) = <<"u">>
          /\ RowOrigins(searches)[r].result.u # RowOrigins(searches)[r].entry
          /\ DataRowColumns(r)[1] = RowOrigins(searches)[r].result.u

\* A value of the loaded configuration is absent or empty.
MissingProperty ==
    \E v \in { ldap_server_properties.server,
               ldap_server_properties.username,
               ldap_server_properties.password } : v \in {"None", ""}

\* C11: when the server address, the username or the password is absent or
\* empty in the loaded configuration, the run fails with an error before any
\* session is attempted: no server or connection object is created and no
\* bind is tried with the missing value.  (A Server object is created exactly
\* when Server(...) returns, and Connection(...) is then called with it, so
\* connection_calls is empty exactly when neither object was created.)
C11_MissingPropertyStopsRun ==
    (handler = "perform_ldap_search" /\ MissingProperty) =>
        /\ connection_calls = <<>>
        /\ ~SessionOpened
        /\ (RunOver /\ search_params.valid) => dialog = "error"

=============================================================================
